---- MODULE Spec2Model ----
(***************************************************************************)
(* Type-completeness scoring pipelines of python-sdk-typescoring-function. *)
(*                                                                         *)
(* Three entry points are modelled as one state machine, selected by the   *)
(* variable `pipeline`:                                                    *)
(*   "main"      run_main_typescore.py      main_typescore_function        *)
(*   "released"  run_released_typescore.py  released_typescore_function    *)
(*   "function"  function_app.py            test_function                  *)
(*                                                                         *)
(* Text values the code inspects character by character (version strings,  *)
(* ISO dates) are sequences of one-character strings.  Package names are   *)
(* plain strings.                                                          *)
(***************************************************************************)
EXTENDS Integers, Sequences, FiniteSets, TLC

VARIABLES
    pipeline,           \* which entry point is running
    today,              \* datetime.datetime.today() of the run
    catalog,            \* rows of python-packages.csv (the data frame df)
    feed,               \* the alpha feed: sequence of [name, versions]
    table,              \* history store: entities readable by get_entity
    row,                \* index of the next catalog row to iterate
    packages_to_score,  \* the work set: name -> record
    order,              \* insertion order of the work-set dict
    install_packages,   \* bulk install list (first_round in the main pipeline)
    second_round,       \* main pipeline: name -> isolated install arguments
    entities,           \* batch being assembled (list of entities)
    second_round_entities, \* main pipeline: entities of the isolated round
    report,             \* test_function's local `report` (survives iterations)
    cur,                \* index into the loop being executed
    calls,              \* log of external invocations, in order
    lookups,            \* how the cache lookup of each package ended
    transactions,       \* batches submitted to the history store
    pc,                 \* control position
    error               \* exception that ended the run, or "none"

vars == <<pipeline, today, catalog, feed, table, row, packages_to_score, order,
          install_packages, second_round, entities, second_round_entities, report, cur, calls, lookups,
          transactions, pc, error>>

-----------------------------------------------------------------------------
(* Bounds of the model *)

\* longest catalog given to the released pipeline and to the function app
MaxRows == 2

\* rows appended after the conflict-table rows in a main-pipeline catalog
MaxExtraRows == 1

-----------------------------------------------------------------------------
(* Generic helpers *)

NoValue == "None"

NaN == <<"nan">>

NaNName == "nan"

Range(s) == {s[i] : i \in 1..Len(s)}

SeqsUpTo(S, n) == UNION {[1..k -> S] : k \in 0..n}

IndexOf(s, x) == CHOOSE i \in 1..Len(s) : s[i] = x /\ \A j \in 1..(i-1) : s[j] # x

DigitChars == <<"0", "1", "2", "3", "4", "5", "6", "7", "8", "9">>

DigitValue(c) == IndexOf(DigitChars, c) - 1

RECURSIVE IntToChars(_)
IntToChars(n) ==
    IF n < 10 THEN <<DigitChars[n + 1]>>
    ELSE IntToChars(n \div 10) \o <<DigitChars[(n % 10) + 1]>>

RECURSIVE CharsToInt(_)
CharsToInt(s) ==
    IF Len(s) = 0 THEN 0
    ELSE 10 * CharsToInt(SubSeq(s, 1, Len(s) - 1)) + DigitValue(s[Len(s)])

\* zero-padded decimal of width w, as str(datetime.date) prints its fields
RECURSIVE ZeroPad(_, _)
ZeroPad(s, w) == IF Len(s) >= w THEN s ELSE ZeroPad(<<"0">> \o s, w)

-----------------------------------------------------------------------------
(* packaging.version: parse, ordering, str *)

IsVersionText(v) == v # NaN

\* position of the first pre-release letter, or Len(v)+1
PreIndex(v) ==
    IF \E i \in 1..Len(v) : v[i] \in {"a", "b"}
    THEN CHOOSE i \in 1..Len(v) : v[i] \in {"a", "b"} /\ \A j \in 1..(i-1) : v[j] \notin {"a", "b"}
    ELSE Len(v) + 1

RECURSIVE SplitDots(_)
SplitDots(s) ==
    IF \E i \in 1..Len(s) : s[i] = "."
    THEN LET i == CHOOSE k \in 1..Len(s) : s[k] = "." /\ \A j \in 1..(k-1) : s[j] # "."
         IN  <<CharsToInt(SubSeq(s, 1, i - 1))>> \o SplitDots(SubSeq(s, i + 1, Len(s)))
    ELSE <<CharsToInt(s)>>

\* parse(text): the release tuple and the pre-release segment (<<>> when there is none)
parse(v) ==
    LET p == PreIndex(v)
    IN  [release |-> SplitDots(SubSeq(v, 1, p - 1)),
         pre     |-> IF p > Len(v) THEN <<>>
                     ELSE <<v[p], CharsToInt(SubSeq(v, p + 1, Len(v)))>>]

RECURSIVE StripTrailingZeros(_)
StripTrailingZeros(r) ==
    IF Len(r) > 0 /\ r[Len(r)] = 0 THEN StripTrailingZeros(SubSeq(r, 1, Len(r) - 1)) ELSE r

RECURSIVE TupleLess(_, _)
TupleLess(a, b) ==
    IF Len(b) = 0 THEN FALSE
    ELSE IF Len(a) = 0 THEN TRUE
    ELSE IF a[1] # b[1] THEN a[1] < b[1]
    ELSE TupleLess(Tail(a), Tail(b))

\* rank of the pre-release segment: a < b < final release
PreLess(p, q) ==
    IF p = <<>> THEN FALSE
    ELSE IF q = <<>> THEN TRUE
    ELSE IF p[1] # q[1] THEN p[1] = "a"
    ELSE p[2] < q[2]

\* Version.__lt__ (comparison of the _key tuples)
VersionLess(x, y) ==
    LET rx == StripTrailingZeros(x.release)
        ry == StripTrailingZeros(y.release)
    IN  IF rx # ry THEN TupleLess(rx, ry) ELSE PreLess(x.pre, y.pre)

RECURSIVE JoinDots(_)
JoinDots(r) ==
    IF Len(r) = 1 THEN IntToChars(r[1])
    ELSE IntToChars(r[1]) \o <<".">> \o JoinDots(Tail(r))

\* str(Version)
VersionStr(x) ==
    JoinDots(x.release) \o
    (IF x.pre = <<>> THEN <<>> ELSE <<x.pre[1]>> \o IntToChars(x.pre[2]))

\* max(a, b) of Python: the first argument unless the second is greater
VersionMax(x, y) == IF VersionLess(x, y) THEN y ELSE x

\* lexical (character by character) comparison of two texts
CharRank(c) == IndexOf(<<".", "0", "1", "2", "3", "4", "5", "6", "7", "8", "9", "a", "b">>, c)

RECURSIVE TextLess(_, _)
TextLess(a, b) ==
    IF Len(b) = 0 THEN FALSE
    ELSE IF Len(a) = 0 THEN TRUE
    ELSE IF a[1] # b[1] THEN CharRank(a[1]) < CharRank(b[1])
    ELSE TextLess(Tail(a), Tail(b))

LexicalLatest(ga, preview) ==
    IF IsVersionText(ga) /\ IsVersionText(preview)
    THEN IF TextLess(ga, preview) THEN preview ELSE ga
    ELSE IF ga # NaN THEN ga ELSE preview

\* latest_version of a catalog row (the try/except TypeError around max(parse, parse))
latest_version(ga, preview) ==
    IF IsVersionText(ga) /\ IsVersionText(preview)
    THEN VersionStr(VersionMax(parse(ga), parse(preview)))
    ELSE IF ga # NaN THEN ga ELSE preview

-----------------------------------------------------------------------------
(* datetime: dates, get_last_month, str(datetime.date) *)

IsLeap(y) == (y % 4 = 0 /\ y % 100 # 0) \/ y % 400 = 0

DaysInMonth(y, m) ==
    IF m = 2 THEN (IF IsLeap(y) THEN 29 ELSE 28)
    ELSE IF m \in {4, 6, 9, 11} THEN 30 ELSE 31

\* datetime.date(y, m, d) raises ValueError for a day the month does not have
ValidDate(d) == d.month \in 1..12 /\ d.day >= 1 /\ d.day <= DaysInMonth(d.year, d.month)

\* str(datetime.date): YYYY-MM-DD
DateStr(d) ==
    ZeroPad(IntToChars(d.year), 4) \o <<"-">> \o ZeroPad(IntToChars(d.month), 2)
        \o <<"-">> \o ZeroPad(IntToChars(d.day), 2)

ValueError == <<"ValueError">>

\* the date get_last_month hands to datetime.date
LastMonthDate(t) ==
    IF t.month - 1 = 0
    THEN [year |-> t.year - 1, month |-> 12, day |-> t.day]
    ELSE [year |-> t.year, month |-> t.month - 1, day |-> t.day]

get_last_month(t) ==
    IF ValidDate(LastMonthDate(t)) THEN DateStr(LastMonthDate(t)) ELSE ValueError

-----------------------------------------------------------------------------
(* Ignore policy *)

\* ci_tools.environment_exclusions, as imported
IGNORE_FILTER == {"nspkg", "mgmt", "cognitiveservices"}

FILTER_EXCLUSIONS == {"azure-mgmt-core"}

additional_ignores ==
    {"adal", "msal", "pydocumentdb", "azure-devtools", "doc-warden", "azure-kusto-data",
     "msrest", "msrestazure", "tox-monorepo", "azure-functions", "iotedgedev",
     "iotedgehubdev", "iothub-client", "iothub-service-client", "text-analytics",
     "azure-storage-file", "azure-schemaregistry-avroserializer",
     "azure-iot-provisioning-device-client",
     "microsoft-opentelemetry-exporter-azuremonitor", "azure-search", "azureml-sdk",
     "azure-communication-administration", "azure-iot-device", "azure-purview-account",
     "azure-storage-common", "azure-iothub-provisioningserviceclient",
     "azure-iothub-service-client", "azure-cosmosdb-table", "azure-iothub-device-client",
     "azure-datalake-store", "azure-opentelemetry-exporter-azuremonitor", "azure-iot-hub",
     "uamqp"}

\* the exact-name ignore list after the module-level extend() calls
IGNORE_PACKAGES(p) ==
    additional_ignores
    \cup (IF p = "function" THEN {}
          ELSE {"azureml-fsspec", "mltable", "apiview-stub-generator",
                "azure-pylint-guidelines-checker"})
    \cup (IF p = "main" THEN {"azure-ai-vision", "azure-ai-mlmonitoring"} ELSE {})

\* `identifier in package_name` for the package names of the model
NameContains ==
    {<<"azure-mgmt-compute", "mgmt">>, <<"azure-mgmt-core", "mgmt">>,
     <<"azure-nspkg", "nspkg">>}

IgnoringExemptions(p, package_name) ==
    \/ package_name \in IGNORE_PACKAGES(p)
    \/ \E identifier \in IGNORE_FILTER : <<package_name, identifier>> \in NameContains

is_ignored_package(p, package_name) ==
    \/ package_name \in IGNORE_PACKAGES(p)
    \/ /\ package_name \notin FILTER_EXCLUSIONS
       /\ \E identifier \in IGNORE_FILTER : <<package_name, identifier>> \in NameContains

-----------------------------------------------------------------------------
(* Conflict table of the main pipeline *)

DEPENDENCY_ISSUE_LIBRARIES ==
    <<[library |-> "azure-mixedreality-authentication",
       deps |-> <<"azure-mixedreality-remoterendering">>],
      [library |-> "azure-ai-ml",
       deps |-> <<"azure-storage-blob", "azure-storage-file-share",
                  "azure-storage-file-datalake">>],
      [library |-> "azure-storage-blob-changefeed", deps |-> <<"azure-storage-blob">>],
      [library |-> "azure-storage-file-datalake", deps |-> <<"azure-storage-blob">>],
      [library |-> "azure-core",
       deps |-> <<"azure-core-experimental", "azure-core-tracing-opencensus",
                  "azure-core-tracing-opentelemetry">>]>>

ConflictLibraries == {DEPENDENCY_ISSUE_LIBRARIES[i].library : i \in 1..Len(DEPENDENCY_ISSUE_LIBRARIES)}

\* the isolated package of the released pipeline and what is uninstalled for it
ReleasedIsolated == "azure-core"

ReleasedUninstalls ==
    <<"azure-core-experimental", "azure-core-tracing-opencensus",
      "azure-core-tracing-opentelemetry">>

-----------------------------------------------------------------------------
(* Inputs of a run *)

v1_0_0 == <<"1", ".", "0", ".", "0">>

v1_2_0 == <<"1", ".", "2", ".", "0">>

v1_9_0 == <<"1", ".", "9", ".", "0">>

v2_0_0 == <<"2", ".", "0", ".", "0">>

v1_0_0b1 == <<"1", ".", "0", ".", "0", "b", "1">>

v2_0_0b1 == <<"2", ".", "0", ".", "0", "b", "1">>

v1_10_0b1 == <<"1", ".", "1", "0", ".", "0", "b", "1">>

v1_0_0a1 == <<"1", ".", "0", ".", "0", "a", "1">>

v1_0_0a2 == <<"1", ".", "0", ".", "0", "a", "2">>

CsvRow(name, ga, preview) == [Package |-> name, VersionGA |-> ga, VersionPreview |-> preview]

\* rows a catalog is made of: a semantic/lexical disagreement in both directions,
\* a second row for the same name, a pattern-ignored name and a missing name
Rows ==
    {CsvRow("azure-core", v1_9_0, v1_10_0b1),
     CsvRow("azure-storage-blob", v2_0_0, v2_0_0b1),
     CsvRow("azure-storage-blob", NaN, v1_0_0b1),
     CsvRow("azure-mgmt-compute", v1_0_0, NaN),
     CsvRow(NaNName, v1_0_0, NaN)}

\* one row for every library of the conflict table
ConflictRows ==
    <<CsvRow("azure-mixedreality-authentication", v1_0_0, NaN),
      CsvRow("azure-ai-ml", v1_2_0, NaN),
      CsvRow("azure-storage-blob-changefeed", NaN, v1_0_0b1),
      CsvRow("azure-storage-file-datalake", v1_2_0, v1_0_0b1),
      CsvRow("azure-core", v1_9_0, v1_10_0b1)>>

WithoutRow(s, i) == SubSeq(s, 1, i - 1) \o SubSeq(s, i + 1, Len(s))

\* catalogs of the main pipeline: the conflict-table rows, at most one of them
\* left out, followed by at most MaxExtraRows further rows
MainCatalogs ==
    {head \o tail :
        head \in {ConflictRows} \cup {WithoutRow(ConflictRows, i) : i \in 1..Len(ConflictRows)},
        tail \in SeqsUpTo(Rows, MaxExtraRows)}

Catalogs == SeqsUpTo(Rows, MaxRows)

RunDates ==
    {[year |-> 2023, month |-> 1, day |-> 15, hour |-> 13],
     [year |-> 2023, month |-> 3, day |-> 31, hour |-> 8]}

\* the day the entries already in the store were written
PreviousRunDate == [year |-> 2022, month |-> 12, day |-> 15, hour |-> 13]

StoredEntity(name, version, score, pytyped) ==
    [RowKey |-> name, PartitionKey |-> DateStr(PreviousRunDate), Package |-> name,
     Date |-> PreviousRunDate, LatestVersion |-> version, Score |-> score,
     PyTyped |-> pytyped]

\* contents of the history store before the run
Tables ==
    LET core    == StoredEntity("azure-core", v1_10_0b1, 912, TRUE)
        blob    == StoredEntity("azure-storage-blob", v2_0_0, 500, FALSE)
        blobOld == StoredEntity("azure-storage-blob", v1_0_0b1, 400, FALSE)
    IN  {{}, {core}, {blob}, {blobOld}, {core, blob}, {core, blobOld}}

\* version lists the alpha feed serves for a package: (version, publish time)
FeedVersion(v, t) == [version |-> v, publishDate |-> t]

AlphaVersions == <<FeedVersion(v1_0_0a2, 1), FeedVersion(v1_0_0b1, 3), FeedVersion(v1_0_0a1, 2)>>

OtherVersionLists == {<<FeedVersion(v1_0_0a1, 1)>>, <<FeedVersion(v1_0_0b1, 1)>>}

FeedNames ==
    <<"azure-storage-blob", "azure-core", "azure-storage-file-datalake",
      "azure-storage-blob-changefeed", "azure-ai-ml", "azure-mixedreality-authentication">>

FeedOf(names, versionsOf) ==
    [i \in 1..Len(names) |-> [name |-> names[i], versions |-> versionsOf[names[i]]]]

\* feeds: every package has alpha versions, except that one package may be
\* missing from the feed or have another version list
Feeds ==
    LET full == [n \in Range(FeedNames) |-> AlphaVersions]
    IN  {FeedOf(FeedNames, full)}
        \cup {FeedOf(SelectSeq(FeedNames, LAMBDA n : n # odd), full) :
                odd \in {"azure-core", "azure-storage-blob"}}
        \cup {FeedOf(FeedNames, [full EXCEPT ![odd] = vl]) :
                odd \in {"azure-core", "azure-storage-blob"}, vl \in OtherVersionLists}

\* what one checker invocation can do: exit code and, for 0 and 1, the report
\* it prints (completenessScore in ten-thousandths)
CheckerOutcomes ==
    {[returncode |-> 0, report |-> <<[completenessScore |-> 10000, pyTypedPath |-> "py.typed"]>>],
     [returncode |-> 1, report |-> <<[completenessScore |-> 8734, pyTypedPath |-> NoValue]>>],
     [returncode |-> 2, report |-> <<>>]}

-----------------------------------------------------------------------------
(* Dictionaries, requirements, the call log *)

EmptyDict == [n \in {} |-> <<>>]

\* d[k] = v of a Python dict: a new key goes last, an old key keeps its place
DictSet(d, k, v) == [n \in DOMAIN d \cup {k} |-> IF n = k THEN v ELSE d[n]]

OrderSet(o, k) == IF k \in Range(o) THEN o ELSE Append(o, k)

\* record r with the fields of u added or overwritten (dict.update)
Update(r, u) == u @@ r

\* "name==version"
Req(name, version) == [name |-> name, version |-> version]

\* a bare name on a pip command line
Name(name) == [name |-> name, version |-> <<>>]

PyrightPin(p) ==
    Req("pyright", IF p = "function"
                   THEN <<"1", ".", "1", ".", "2", "7", "4">>
                   ELSE <<"1", ".", "1", ".", "2", "8", "7">>)

\* one external invocation: what was run, for which package, its arguments,
\* its exit code and what it printed (for the checker the report, for pip show
\* the kind of manifest)
Call(op, package, args, rc, output) ==
    [op |-> op, package |-> package, args |-> args, rc |-> rc, output |-> output]

Pins(args) == {args[i].name : i \in 1..Len(args)}

\* index of the last successful call of kind op that names the package, or 0
LastCall(log, op, package) ==
    LET S == {i \in 1..Len(log) :
                log[i].op = op /\ log[i].rc = 0 /\ package \in Pins(log[i].args)}
    IN  IF S = {} THEN 0 ELSE CHOOSE i \in S : \A j \in S : j <= i

\* the run has installed the package and not uninstalled it since
InstalledByRun(log, package) ==
    LastCall(log, "install", package) > LastCall(log, "uninstall", package)

-----------------------------------------------------------------------------
(* Initial state *)

\* the main pipeline makes no cache lookup and reads nothing of the run date
\* but the value it stores; its runs start on the 15th
Init ==
    /\ pipeline \in {"main", "released", "function"}
    /\ today \in (IF pipeline = "main" THEN {d \in RunDates : d.day = 15} ELSE RunDates)
    /\ catalog \in (IF pipeline = "main" THEN MainCatalogs ELSE Catalogs)
    /\ feed \in (IF pipeline = "main" THEN Feeds ELSE {<<>>})
    /\ table \in (IF pipeline = "main" THEN {{}} ELSE Tables)
    /\ row = 1
    /\ packages_to_score = EmptyDict
    /\ order = <<>>
    /\ install_packages = <<>>
    /\ second_round = EmptyDict
    /\ entities = <<>>
    /\ second_round_entities = <<>>
    /\ report = <<>>
    /\ cur = 1
    /\ calls = <<>>
    /\ lookups = EmptyDict
    /\ transactions = <<>>
    /\ pc = "catalog"
    /\ error = "none"

\* an exception nobody catches ends the run
Crash(err) == pc' = "crashed" /\ error' = err

-----------------------------------------------------------------------------
(* Catalog Builder *)

\* the `continue` test of the row loop, ignoring duplicates
SkipRowKeepingDuplicates(p, work, r) ==
    \/ r.Package = NaNName
    \/ is_ignored_package(p, r.Package)

\* the `continue` test of the row loop
skip_row(p, work, r) ==
    \/ r.Package = NaNName
    \/ is_ignored_package(p, r.Package)
    \/ r.Package \in DOMAIN work

\* the record a surviving row starts with
new_record(r, t) ==
    [LatestVersion |-> latest_version(r.VersionGA, r.VersionPreview), Date |-> t]

\* get_packages_to_score: one iteration of the row loop, or leaving the loop
ReadRow ==
    /\ pc = "catalog"
    /\ pipeline \in {"main", "released"}
    /\ IF row > Len(catalog)
       THEN /\ pc' = (IF pipeline = "main" THEN "alpha" ELSE "lookup")
            /\ UNCHANGED <<row, packages_to_score, order>>
       ELSE /\ row' = row + 1
            /\ pc' = pc
            /\ IF skip_row(pipeline, packages_to_score, catalog[row])
               THEN UNCHANGED <<packages_to_score, order>>
               ELSE /\ packages_to_score' =
                          DictSet(packages_to_score, catalog[row].Package,
                                  new_record(catalog[row], today))
                    /\ order' = OrderSet(order, catalog[row].Package)
    /\ UNCHANGED <<pipeline, today, catalog, feed, table, install_packages, second_round,
                   entities, second_round_entities, report, cur, calls, lookups,
                   transactions, error>>

-----------------------------------------------------------------------------
(* Score Cache Lookup *)

GetEntity(tbl, pk, rk) == {e \in tbl : e.PartitionKey = pk /\ e.RowKey = rk}

\* how client.get_entity(partition_key=get_last_month(today), row_key=name) and
\* the version test after it can end
LookupOutcomes(t, tbl, name, version) ==
    IF get_last_month(t) = ValueError THEN {"ValueError"}
    ELSE {"HttpResponseError", "ServiceRequestError"}
         \cup (IF GetEntity(tbl, get_last_month(t), name) = {}
               THEN {"ResourceNotFoundError"}
               ELSE {IF e.LatestVersion = version THEN "hit" ELSE "version_differs" :
                        e \in GetEntity(tbl, get_last_month(t), name)})

CaughtOnlyNotFound(outcome) == outcome = "ResourceNotFoundError"

\* except HttpResponseError: pass
Caught(outcome) == outcome \in {"ResourceNotFoundError", "HttpResponseError"}

\* the lookup falls through to install_packages.append
NeedsRecompute(outcome) == outcome = "version_differs" \/ Caught(outcome)

CachedEntity(t, tbl, name) == CHOOSE e \in GetEntity(tbl, get_last_month(t), name) : TRUE

\* the work set after the lookup of one package
AfterLookup(work, t, tbl, name, outcome) ==
    IF outcome = "hit"
    THEN DictSet(work, name,
                 Update(work[name], [Score |-> CachedEntity(t, tbl, name).Score,
                                     PyTyped |-> CachedEntity(t, tbl, name).PyTyped]))
    ELSE work

\* get_released_installs: one iteration of the loop, or leaving the loop
GetReleasedInstalls ==
    /\ pc = "lookup"
    /\ pipeline = "released"
    /\ IF cur > Len(order)
       THEN /\ pc' = "install"
            /\ cur' = 1
            /\ UNCHANGED <<packages_to_score, install_packages, lookups, error>>
       ELSE LET name == order[cur]
                version == packages_to_score[name].LatestVersion
            IN  \E outcome \in LookupOutcomes(today, table, name, version) :
                  /\ lookups' = DictSet(lookups, name, outcome)
                  /\ IF outcome = "hit" \/ NeedsRecompute(outcome)
                     THEN /\ packages_to_score' =
                                AfterLookup(packages_to_score, today, table, name, outcome)
                          /\ install_packages' =
                                (IF outcome = "hit" THEN install_packages
                                 ELSE Append(install_packages, Req(name, version)))
                          /\ cur' = cur + 1
                          /\ UNCHANGED <<pc, error>>
                     ELSE /\ Crash(outcome)
                          /\ UNCHANGED <<packages_to_score, install_packages, cur>>
    /\ UNCHANGED <<pipeline, today, catalog, feed, table, row, order, second_round,
                   entities, second_round_entities, report, calls, transactions>>

\* test_function: one iteration of the row loop (with its cache lookup), or
\* leaving the loop
ReadRowFunction ==
    /\ pc = "catalog"
    /\ pipeline = "function"
    /\ IF row > Len(catalog)
       THEN /\ pc' = "install"
            /\ UNCHANGED <<row, packages_to_score, order, install_packages, lookups, error>>
       ELSE IF skip_row(pipeline, packages_to_score, catalog[row])
       THEN /\ row' = row + 1
            /\ UNCHANGED <<pc, packages_to_score, order, install_packages, lookups, error>>
       ELSE LET name == catalog[row].Package
                rec == new_record(catalog[row], today)
                work == DictSet(packages_to_score, name, rec)
            IN  \E outcome \in LookupOutcomes(today, table, name, rec.LatestVersion) :
                  /\ lookups' = DictSet(lookups, name, outcome)
                  /\ order' = OrderSet(order, name)
                  /\ IF outcome = "hit" \/ NeedsRecompute(outcome)
                     THEN /\ packages_to_score' = AfterLookup(work, today, table, name, outcome)
                          /\ install_packages' =
                                (IF outcome = "hit" THEN install_packages
                                 ELSE Append(install_packages, Req(name, rec.LatestVersion)))
                          /\ row' = row + 1
                          /\ UNCHANGED <<pc, error>>
                     ELSE /\ Crash(outcome)
                          /\ packages_to_score' = work
                          /\ UNCHANGED <<install_packages, row>>
    /\ UNCHANGED <<pipeline, today, catalog, feed, table, second_round, entities,
                   second_round_entities, report, cur, calls, transactions>>

-----------------------------------------------------------------------------
(* Alpha feed of the main pipeline *)

\* "a" in version["version"]
HasAlphaLetter(v) == \E i \in 1..Len(v) : v[i] = "a"

\* the version loop of one feed package: best = <<>> or <<publishDate, version>>
RECURSIVE AlphaPick(_, _, _)
AlphaPick(versions, i, best) ==
    IF i > Len(versions) THEN best
    ELSE IF HasAlphaLetter(versions[i].version)
            /\ (best = <<>> \/ best[1] < versions[i].publishDate)
         THEN AlphaPick(versions, i + 1, <<versions[i].publishDate, versions[i].version>>)
         ELSE AlphaPick(versions, i + 1, best)

\* versions_to_install after the first i feed packages: [dict, order]
RECURSIVE VersionsToInstall(_, _, _)
VersionsToInstall(fd, work, i) ==
    IF i = 0 THEN [dict |-> EmptyDict, order |-> <<>>]
    ELSE LET before == VersionsToInstall(fd, work, i - 1)
             pick == AlphaPick(fd[i].versions, 1, <<>>)
         IN  IF fd[i].name \in DOMAIN work /\ pick # <<>>
             THEN [dict |-> DictSet(before.dict, fd[i].name, pick[2]),
                   order |-> OrderSet(before.order, fd[i].name)]
             ELSE before

NeverSecondRound(name) == FALSE

\* package_name in DEPENDENCY_ISSUE_LIBRARIES
in_second_round(name) == name \in ConflictLibraries

\* first_round, second_round and the work set after the first i names of
\* versions_to_install.items()
RECURSIVE SplitRounds(_, _, _)
SplitRounds(vti, work, i) ==
    IF i = 0 THEN [first |-> <<>>, second |-> EmptyDict, work |-> work]
    ELSE LET before == SplitRounds(vti, work, i - 1)
             name == vti.order[i]
             version == vti.dict[name]
             updated == DictSet(before.work, name,
                                Update(before.work[name], [LatestVersion |-> version]))
         IN  IF in_second_round(name)
             THEN [first |-> before.first,
                   second |-> DictSet(before.second, name, <<Req(name, version)>>),
                   work |-> updated]
             ELSE [first |-> Append(before.first, Req(name, version)),
                   second |-> before.second,
                   work |-> updated]

\* get_alpha_installs (the index options of the pip command line are left out)
GetAlphaInstalls ==
    /\ pc = "alpha"
    /\ pipeline = "main"
    /\ LET vti == VersionsToInstall(feed, packages_to_score, Len(feed))
           rounds == SplitRounds(vti, packages_to_score, Len(vti.order))
       IN  /\ install_packages' = rounds.first
           /\ second_round' = rounds.second
           /\ packages_to_score' = rounds.work
    /\ pc' = "install"
    /\ UNCHANGED <<pipeline, today, catalog, feed, table, row, order, entities,
                   second_round_entities, report, cur, calls, lookups, transactions, error>>

-----------------------------------------------------------------------------
(* Environment Resource Manager *)

\* exit codes of a package-manager invocation
PipExitCodes == {0, 1}

IgnoringFailure(rc) == TRUE

\* subprocess.check_call returns (and does not raise CalledProcessError)
check_call_ok(rc) == rc = 0

\* the argument list install(packages) hands to pip
install_args(p, packages) == Append(packages, PyrightPin(p))

\* install(install_packages) / install(first_round): the bulk install
Install ==
    /\ pc = "install"
    /\ IF install_packages = <<>>
       THEN /\ pc' = "score"
            /\ UNCHANGED <<install_packages, calls, error>>
       ELSE \E rc \in PipExitCodes :
              /\ install_packages' = install_args(pipeline, install_packages)
              /\ calls' = Append(calls, Call("install", "", install_packages', rc, <<>>))
              /\ IF check_call_ok(rc)
                 THEN pc' = "score" /\ UNCHANGED error
                 ELSE Crash("CalledProcessError")
    /\ cur' = 1
    /\ UNCHANGED <<pipeline, today, catalog, feed, table, row, packages_to_score, order,
                   second_round, entities, second_round_entities, report, lookups,
                   transactions>>

-----------------------------------------------------------------------------
(* Type Completeness Scorer and Result Assembler *)

HasScore(rec) == "Score" \in DOMAIN rec

EntityOfFirstOfMonth(package, work) ==
    [RowKey |-> package,
     PartitionKey |-> DateStr([work[package].Date EXCEPT !.day = 1]),
     Package |-> package,
     Date |-> work[package].Date,
     LatestVersion |-> work[package].LatestVersion,
     Score |-> work[package].Score,
     PyTyped |-> work[package].PyTyped]

\* add_entity: the entity built from the work-set record of the package
add_entity(package, work) ==
    [RowKey |-> package,
     PartitionKey |-> DateStr(work[package].Date),
     Package |-> package,
     Date |-> work[package].Date,
     LatestVersion |-> work[package].LatestVersion,
     Score |-> work[package].Score,
     PyTyped |-> work[package].PyTyped]

\* what `pip show -f` can answer for a package: a manifest with an __init__.py
\* entry, a manifest without one, or (package not installed) a failure
ShowOutcomes(log, package) ==
    {"ok", "no_init"} \cup (IF InstalledByRun(log, package) THEN {} ELSE {"failed"})

\* get_module: "ok" (a module identifier), "garbage" (a slice that is no module
\* identifier) or the exception raised
get_module(p, show) ==
    IF show = "failed" THEN "CalledProcessError"
    ELSE IF show = "ok" THEN "ok"
    ELSE IF p = "function" THEN "garbage" ELSE "UnboundLocalError"

\* the module argument given to the checker
ModuleOf(package, got) == IF got = "ok" THEN package ELSE ""

\* the value of `report` after the try/except/else around the checker run:
\* before is <<>> when the name is unbound
parsed_report(before, chk) ==
    IF chk.returncode = 0 THEN chk.report
    ELSE IF chk.returncode # 1 THEN before
    ELSE chk.report

TruncatedScore(c) == c \div 10

\* round(completenessScore * 100, 1), in tenths of a percent, for a
\* completenessScore c in ten-thousandths that is not half-way between two tenths
round_score(c) == (c + 5) \div 10

scored_fields(rep) ==
    [PyTyped |-> rep.pyTypedPath # NoValue, Score |-> round_score(rep.completenessScore)]

\* `report` as the scoring code finds it: a local of score_package, but a local
\* of the whole test_function in the function app
ReportBefore == IF pipeline = "function" THEN report ELSE <<>>

\* score_package(package, packages_to_score, target) and the same statements
\* inlined in test_function; target is "entities" or "second_round_entities"
ScorePackageWith(outcomes, package, target, nextpc, nextcur) ==
    \E show \in ShowOutcomes(calls, package), chk \in outcomes :
      LET got == get_module(pipeline, show)
          showCall == Call("show", package, <<>>, IF show = "failed" THEN 1 ELSE 0, <<show>>)
          checkCall == Call("check", package, <<Name(ModuleOf(package, got))>>,
                            chk.returncode, chk.report)
          rep == parsed_report(ReportBefore, chk)
      IN  IF got \notin {"ok", "garbage"}
          THEN /\ calls' = Append(calls, showCall)
               /\ Crash(got)
               /\ UNCHANGED <<packages_to_score, entities, second_round_entities, report, cur>>
          ELSE /\ calls' = calls \o <<showCall, checkCall>>
               /\ IF rep = <<>>
                  THEN /\ Crash("UnboundLocalError")
                       /\ UNCHANGED <<packages_to_score, entities, second_round_entities,
                                      report, cur>>
                  ELSE IF package \notin DOMAIN packages_to_score
                  THEN /\ Crash("KeyError")
                       /\ UNCHANGED <<packages_to_score, entities, second_round_entities,
                                      report, cur>>
                  ELSE LET work == DictSet(packages_to_score, package,
                                           Update(packages_to_score[package],
                                                  scored_fields(rep[1])))
                       IN  /\ packages_to_score' = work
                           /\ report' = (IF pipeline = "function" THEN rep ELSE report)
                           /\ IF target = "entities"
                              THEN /\ entities' = Append(entities, add_entity(package, work))
                                   /\ UNCHANGED second_round_entities
                              ELSE /\ second_round_entities' =
                                         Append(second_round_entities, add_entity(package, work))
                                   /\ UNCHANGED entities
                           /\ pc' = nextpc
                           /\ cur' = nextcur
                           /\ UNCHANGED error

ScorePackage(package, target, nextpc, nextcur) ==
    ScorePackageWith(CheckerOutcomes, package, target, nextpc, nextcur)

\* packages the first scoring loop leaves to the isolated round
SkipsNothing(p, package) == FALSE

skipped_in_round1(p, package) ==
    \/ p = "main" /\ package \in ConflictLibraries
    \/ p = "released" /\ package = ReleasedIsolated

\* the loop reuses a score the record already carries
reuses_score(p, rec) == p # "main" /\ HasScore(rec)

\* one iteration of the scoring loop over packages_to_score.items(), or leaving
\* it, with the checker answering from the given outcomes
ScoreLoopStep(outcomes) ==
    /\ pc = "score"
    /\ IF cur > Len(order)
       THEN /\ pc' = (IF pipeline = "main" THEN "r2_uninstall"
                      ELSE IF pipeline = "released" THEN "r2_uninstall" ELSE "submit")
            /\ cur' = 1
            /\ UNCHANGED <<packages_to_score, entities, second_round_entities, report,
                           calls, error>>
       ELSE IF skipped_in_round1(pipeline, order[cur])
       THEN /\ cur' = cur + 1
            /\ UNCHANGED <<pc, packages_to_score, entities, second_round_entities, report,
                           calls, error>>
       ELSE IF reuses_score(pipeline, packages_to_score[order[cur]])
       THEN /\ entities' = Append(entities, add_entity(order[cur], packages_to_score))
            /\ cur' = cur + 1
            /\ UNCHANGED <<pc, packages_to_score, second_round_entities, report, calls, error>>
       ELSE ScorePackageWith(outcomes, order[cur], "entities", "score", cur + 1)
    /\ UNCHANGED <<pipeline, today, catalog, feed, table, row, order, install_packages,
                   second_round, lookups, transactions>>

ScoreNext == ScoreLoopStep(CheckerOutcomes)

\* the isolated packages of the pipeline with what is uninstalled for each
Isolated(p) ==
    IF p = "main" THEN DEPENDENCY_ISSUE_LIBRARIES
    ELSE <<[library |-> ReleasedIsolated, deps |-> ReleasedUninstalls]>>

KeepingFirstDependency(deps) == [i \in 1..(Len(deps) - 1) |-> Name(deps[i + 1])]

\* the dependency names as uninstall_deps puts them on the command line
NamesOf(deps) == [i \in 1..Len(deps) |-> Name(deps[i])]

WithoutSecondRound(ents, second) == ents

\* entities.extend(second_round_entities)
extend(ents, second) == ents \o second

\* uninstall_deps(deps) of the isolated round, or leaving the round
UninstallDeps ==
    /\ pc = "r2_uninstall"
    /\ pipeline \in {"main", "released"}
    /\ IF cur > Len(Isolated(pipeline))
       THEN /\ pc' = "submit"
            /\ entities' = extend(entities, second_round_entities)
            /\ UNCHANGED <<calls, error>>
       ELSE \E rc \in PipExitCodes :
              /\ calls' = Append(calls, Call("uninstall", Isolated(pipeline)[cur].library,
                                              NamesOf(Isolated(pipeline)[cur].deps), rc, <<>>))
              /\ IF check_call_ok(rc)
                 THEN /\ pc' = (IF pipeline = "main" THEN "r2_install" ELSE "r2_score")
                      /\ UNCHANGED error
                 ELSE Crash("CalledProcessError")
              /\ UNCHANGED entities
    /\ UNCHANGED <<pipeline, today, catalog, feed, table, row, packages_to_score, order,
                   install_packages, second_round, second_round_entities, report, cur,
                   lookups, transactions>>

\* install(second_round[package]) of the main pipeline
InstallIsolated ==
    /\ pc = "r2_install"
    /\ pipeline = "main"
    /\ LET package == Isolated(pipeline)[cur].library
       IN  IF package \notin DOMAIN second_round
           THEN /\ Crash("KeyError")
                /\ UNCHANGED <<second_round, calls>>
           ELSE \E rc \in PipExitCodes :
                  /\ second_round' = [second_round EXCEPT
                                         ![package] = install_args(pipeline, second_round[package])]
                  /\ calls' = Append(calls, Call("install", package, second_round'[package], rc, <<>>))
                  /\ IF check_call_ok(rc)
                     THEN pc' = "r2_score" /\ UNCHANGED error
                     ELSE Crash("CalledProcessError")
    /\ UNCHANGED <<pipeline, today, catalog, feed, table, row, packages_to_score, order,
                   install_packages, entities, second_round_entities, report, cur, lookups,
                   transactions>>

\* score_package of the isolated round
ScoreIsolated ==
    /\ pc = "r2_score"
    /\ pipeline \in {"main", "released"}
    /\ ScorePackage(Isolated(pipeline)[cur].library,
                    IF pipeline = "main" THEN "second_round_entities" ELSE "entities",
                    "r2_uninstall", cur + 1)
    /\ UNCHANGED <<pipeline, today, catalog, feed, table, row, order, install_packages,
                   second_round, lookups, transactions>>

\* keys (PartitionKey, RowKey) of a batch or of the table
Keys(es) == {<<e.PartitionKey, e.RowKey>> : e \in es}

\* client.submit_transaction(entities): every operation is a "create"
SubmitTransaction ==
    /\ pc = "submit"
    /\ IF Keys(Range(entities)) \cap Keys(table) # {}
          \/ Cardinality(Keys(Range(entities))) # Len(entities)
       THEN /\ Crash("TableTransactionError")
            /\ UNCHANGED <<table, transactions>>
       ELSE /\ table' = table \cup Range(entities)
            /\ transactions' = Append(transactions, entities)
            /\ pc' = "done"
            /\ UNCHANGED error
    /\ UNCHANGED <<pipeline, today, catalog, feed, row, packages_to_score, order,
                   install_packages, second_round, entities, second_round_entities, report,
                   cur, calls, lookups>>

Next ==
    \/ ReadRow
    \/ ReadRowFunction
    \/ GetReleasedInstalls
    \/ GetAlphaInstalls
    \/ Install
    \/ ScoreNext
    \/ UninstallDeps
    \/ InstallIsolated
    \/ ScoreIsolated
    \/ SubmitTransaction

Spec == Init /\ [][Next]_vars

-----------------------------------------------------------------------------
(* The catalog builder alone, on single-row catalogs over many version pairs *)

v1_0 == <<"1", ".", "0">>

v1_10_0 == <<"1", ".", "1", "0", ".", "0">>

v1_0_0b2 == <<"1", ".", "0", ".", "0", "b", "2">>

v1_0_0b10 == <<"1", ".", "0", ".", "0", "b", "1", "0">>

VersionTexts ==
    {NaN, v1_0, v1_0_0, v1_2_0, v1_9_0, v1_10_0, v2_0_0, v1_0_0a1, v1_0_0a2, v1_0_0b1,
     v1_0_0b2, v1_0_0b10, v2_0_0b1, v1_10_0b1}

InitVersions ==
    /\ pipeline \in {"released", "function"}
    /\ today = [year |-> 2023, month |-> 1, day |-> 15]
    /\ catalog \in {<<CsvRow("azure-storage-blob", ga, preview)>> :
                       ga \in VersionTexts, preview \in VersionTexts}
    /\ feed = <<>>
    /\ table = {}
    /\ row = 1
    /\ packages_to_score = EmptyDict
    /\ order = <<>>
    /\ install_packages = <<>>
    /\ second_round = EmptyDict
    /\ entities = <<>>
    /\ second_round_entities = <<>>
    /\ report = <<>>
    /\ cur = 1
    /\ calls = <<>>
    /\ lookups = EmptyDict
    /\ transactions = <<>>
    /\ pc = "catalog"
    /\ error = "none"

NextVersions == ReadRow \/ ReadRowFunction

SpecVersions == InitVersions /\ [][NextVersions]_vars

-----------------------------------------------------------------------------
(* The catalog builder alone, on catalogs over many package names *)

\* names of the Package column: a plain name, the exempted name, two names
\* matching a pattern, a name ignored by every entry point, one ignored by the
\* helpers only, one ignored by the main pipeline only, and a missing name
PackageNames ==
    {"azure-core", "azure-mgmt-core", "azure-mgmt-compute", "azure-nspkg", "msrest",
     "mltable", "azure-ai-vision", NaNName}

InitNames ==
    /\ pipeline \in {"main", "released", "function"}
    /\ today = [year |-> 2023, month |-> 1, day |-> 15]
    /\ catalog \in SeqsUpTo({CsvRow(n, v1_0_0, NaN) : n \in PackageNames}
                            \cup {CsvRow("azure-core", NaN, v2_0_0b1)}, MaxRows)
    /\ feed = <<>>
    /\ table = {}
    /\ row = 1
    /\ packages_to_score = EmptyDict
    /\ order = <<>>
    /\ install_packages = <<>>
    /\ second_round = EmptyDict
    /\ entities = <<>>
    /\ second_round_entities = <<>>
    /\ report = <<>>
    /\ cur = 1
    /\ calls = <<>>
    /\ lookups = EmptyDict
    /\ transactions = <<>>
    /\ pc = "catalog"
    /\ error = "none"

NextNames == ReadRow \/ ReadRowFunction

SpecNames == InitNames /\ [][NextNames]_vars

-----------------------------------------------------------------------------
(* The scorer on one package, over many reports *)

\* completenessScore values of the reports, in ten-thousandths (0.873 is 8730)
CompletenessScores == {0, 4, 8730, 8734, 8736, 9996, 10000}

ReportOutcomes ==
    {[returncode |-> rc, report |-> <<[completenessScore |-> c, pyTypedPath |-> t]>>] :
        rc \in {0, 1}, c \in CompletenessScores, t \in {"py.typed", NoValue}}
    \cup {[returncode |-> 2, report |-> <<>>]}

InitScores ==
    /\ pipeline = "function"
    /\ today = [year |-> 2023, month |-> 1, day |-> 15, hour |-> 13]
    /\ catalog \in {<<r>> : r \in Rows}
    /\ feed = <<>>
    /\ table = {}
    /\ row = 1
    /\ packages_to_score = EmptyDict
    /\ order = <<>>
    /\ install_packages = <<>>
    /\ second_round = EmptyDict
    /\ entities = <<>>
    /\ second_round_entities = <<>>
    /\ report = <<>>
    /\ cur = 1
    /\ calls = <<>>
    /\ lookups = EmptyDict
    /\ transactions = <<>>
    /\ pc = "catalog"
    /\ error = "none"

ScoreNextAnyReport == ScoreLoopStep(ReportOutcomes)

NextScores ==
    \/ ReadRowFunction
    \/ Install
    \/ ScoreNextAnyReport
    \/ SubmitTransaction

SpecScores == InitScores /\ [][NextScores]_vars

-----------------------------------------------------------------------------
(* The same entry point started again on the same day *)

\* how many times the entry point is started on the day
MaxRuns == 2

\* starts of the entry point after the first one, as marked in the call log
\* (with the exit status of the run that ended before)
Restarts(log) == {i \in 1..Len(log) : log[i].op = "run"}

\* released_typescore_function / test_function called again after a run has
\* ended: every local starts afresh, the store and the catalog are as they are
RunAgain ==
    /\ pc \in {"done", "crashed"}
    /\ Cardinality(Restarts(calls)) + 1 < MaxRuns
    /\ row' = 1
    /\ packages_to_score' = EmptyDict
    /\ order' = <<>>
    /\ install_packages' = <<>>
    /\ second_round' = EmptyDict
    /\ entities' = <<>>
    /\ second_round_entities' = <<>>
    /\ report' = <<>>
    /\ cur' = 1
    /\ lookups' = EmptyDict
    /\ calls' = Append(calls, Call("run", "", <<>>, IF pc = "done" THEN 0 ELSE 1, <<>>))
    /\ pc' = "catalog"
    /\ error' = "none"
    /\ UNCHANGED <<pipeline, today, catalog, feed, table, transactions>>

InitTwice ==
    /\ pipeline \in {"released", "function"}
    /\ today \in RunDates
    /\ catalog \in Catalogs
    /\ feed = <<>>
    /\ table \in Tables
    /\ row = 1
    /\ packages_to_score = EmptyDict
    /\ order = <<>>
    /\ install_packages = <<>>
    /\ second_round = EmptyDict
    /\ entities = <<>>
    /\ second_round_entities = <<>>
    /\ report = <<>>
    /\ cur = 1
    /\ calls = <<>>
    /\ lookups = EmptyDict
    /\ transactions = <<>>
    /\ pc = "catalog"
    /\ error = "none"

NextTwice ==
    \/ ReadRow
    \/ ReadRowFunction
    \/ GetReleasedInstalls
    \/ Install
    \/ ScoreNext
    \/ UninstallDeps
    \/ ScoreIsolated
    \/ SubmitTransaction
    \/ RunAgain

SpecTwice == InitTwice /\ [][NextTwice]_vars

-----------------------------------------------------------------------------
(* Vocabulary of the properties *)

WorkSet == DOMAIN packages_to_score

CheckCalls(P) == {i \in 1..Len(calls) : calls[i].op = "check" /\ calls[i].package = P}

InstallCallsWith(P) ==
    {i \in 1..Len(calls) : calls[i].op = "install" /\ P \in Pins(calls[i].args)}

BulkInstallCalls == {i \in 1..Len(calls) : calls[i].op = "install" /\ calls[i].package = ""}

\* entities assembled so far, whichever list holds them
Assembled == Range(entities) \cup Range(second_round_entities)

\* entities of the submitted transactions
Persisted == UNION {Range(transactions[t]) : t \in 1..Len(transactions)}

FirstRow(P) ==
    catalog[CHOOSE i \in 1..Len(catalog) :
                catalog[i].Package = P /\ \A j \in 1..(i - 1) : catalog[j].Package # P]

\* the work set still holds what the catalog builder put there (the main
\* pipeline overwrites LatestVersion in get_alpha_installs)
CatalogVersionsInPlace == pipeline = "main" => pc \in {"catalog", "alpha"}

\* position of each library in the conflict table
ConflictIndex ==
    [P \in ConflictLibraries |->
        CHOOSE k \in 1..Len(DEPENDENCY_ISSUE_LIBRARIES) :
            DEPENDENCY_ISSUE_LIBRARIES[k].library = P]

\* position of P among the isolated packages of the pipeline, or 0
IsoIndex(P) ==
    IF pipeline = "main"
    THEN (IF P \in ConflictLibraries THEN ConflictIndex[P] ELSE 0)
    ELSE (IF P = ReleasedIsolated THEN 1 ELSE 0)

OpRank(op) == IndexOf(<<"uninstall", "install", "show", "check">>, op)

\* index of the first uninstall of the isolated round, or Len(calls) + 1
Round2Start ==
    LET U == {i \in 1..Len(calls) : calls[i].op = "uninstall"}
    IN  IF U = {} THEN Len(calls) + 1 ELSE CHOOSE i \in U : \A j \in U : i <= j

-----------------------------------------------------------------------------
(* C1..C10 *)

\* C1: a package whose cache lookup found an entry of the previous-month
\* partition with the current LatestVersion is neither installed nor checked in
\* the run, and the persisted record carries the cached Score and PyTyped.
C1_CacheHitIsReused ==
    \A P \in DOMAIN lookups :
        lookups[P] = "hit" =>
            /\ InstallCallsWith(P) = {}
            /\ CheckCalls(P) = {}
            /\ pc = "done" =>
                  \E e \in Persisted :
                      /\ e.RowKey = P
                      /\ e.Score = CachedEntity(today, table, P).Score
                      /\ e.PyTyped = CachedEntity(today, table, P).PyTyped

\* C2: a checker exit code of 0 or 1 puts a record of the package into the
\* batch; any other exit code leaves the package out of the batch and does not
\* end the run.
C2_ExitCodesHandled ==
    \A i \in 1..Len(calls) :
        calls[i].op = "check" /\ calls[i].package \in WorkSet =>
            IF calls[i].rc \in {0, 1}
            THEN \E e \in Assembled : e.RowKey = calls[i].package
            ELSE /\ \A e \in Assembled : e.RowKey # calls[i].package
                 /\ ~(pc = "crashed" /\ i = Len(calls))

\* C3: every persisted entity takes its Score and PyTyped from the package's own
\* cached entry or from the package's own report of this run; a package whose
\* checker invocation failed has no persisted entity.
C3_FailedPackageAbsent ==
    \A e \in Persisted :
        /\ \A i \in CheckCalls(e.RowKey) : calls[i].rc \in {0, 1}
        /\ \/ /\ e.RowKey \in DOMAIN lookups
              /\ lookups[e.RowKey] = "hit"
              /\ e.Score = CachedEntity(today, table, e.RowKey).Score
              /\ e.PyTyped = CachedEntity(today, table, e.RowKey).PyTyped
           \/ \E i \in CheckCalls(e.RowKey) :
                 /\ calls[i].rc \in {0, 1}
                 /\ e.Score = round_score(calls[i].output[1].completenessScore)
                 /\ e.PyTyped = (calls[i].output[1].pyTypedPath # NoValue)

\* C4 as stated: in the two-round pipelines no bulk install invocation contains
\* a library of the conflict table.
C4_BulkInstallExcludesConflictTable ==
    pipeline \in {"main", "released"} =>
        \A i \in BulkInstallCalls : Pins(calls[i].args) \cap ConflictLibraries = {}

\* C4 as amended: in the main pipeline no bulk install invocation (and no
\* first_round list) contains a library of the conflict table; the released
\* pipeline puts its isolated package azure-core into the bulk install whenever
\* its cache lookup asks for a recompute.
C4_MainBulkInstallExcludesConflictTable ==
    /\ pipeline = "main" =>
          /\ \A i \in BulkInstallCalls : Pins(calls[i].args) \cap ConflictLibraries = {}
          /\ Pins(install_packages) \cap ConflictLibraries = {}
    /\ pipeline = "released" =>
          \A i \in BulkInstallCalls :
              (ReleasedIsolated \in DOMAIN lookups /\ lookups[ReleasedIsolated] # "hit")
                  => ReleasedIsolated \in Pins(calls[i].args)

C4_Witness ==
    /\ pipeline = "main"
    /\ \E i \in BulkInstallCalls :
          calls[i].rc = 0 /\ "azure-storage-blob" \in Pins(calls[i].args)
    /\ DOMAIN second_round = ConflictLibraries
    /\ ConflictLibraries \subseteq WorkSet

\* C5: every call of the first round (the bulk install, the scoring of the
\* packages that are not isolated) precedes the first uninstall, all those
\* packages have their entity by then, and the calls of the isolated round come
\* package by package in the order uninstall, install, show, check (each call
\* of the round is before its successor in that order, hence before all later
\* calls).
C5_RoundOrdering ==
    pipeline \in {"main", "released"} =>
      LET start == Round2Start
      IN
        /\ \A j \in 1..Len(calls) :
              IF j < start
              THEN calls[j].package = "" \/ IsoIndex(calls[j].package) = 0
              ELSE IsoIndex(calls[j].package) # 0
        /\ start <= Len(calls) =>
              \A P \in Range(order) :
                  IsoIndex(P) = 0 => \E e \in Range(entities) : e.RowKey = P
        /\ \A i \in start..(Len(calls) - 1) :
              \/ IsoIndex(calls[i].package) < IsoIndex(calls[i + 1].package)
              \/ /\ calls[i].package = calls[i + 1].package
                 /\ OpRank(calls[i].op) < OpRank(calls[i + 1].op)

C5_Witness ==
    /\ pipeline = "main"
    /\ pc = "done"
    /\ CheckCalls("azure-storage-blob") # {}
    /\ \A k \in 1..Len(DEPENDENCY_ISSUE_LIBRARIES) :
          CheckCalls(DEPENDENCY_ISSUE_LIBRARIES[k].library) # {}

\* C6: a package name is in the work set once, with the data of its first
\* catalog row, is checked at most once and has at most one entity in a batch.
C6_NameOnce ==
    /\ Range(order) = WorkSet
    /\ \A i, j \in 1..Len(order) : i # j => order[i] # order[j]
    /\ \A P \in WorkSet :
          /\ CatalogVersionsInPlace =>
                packages_to_score[P].LatestVersion =
                    latest_version(FirstRow(P).VersionGA, FirstRow(P).VersionPreview)
          /\ Cardinality(CheckCalls(P)) <= 1
          /\ Cardinality({k \in 1..Len(entities) : entities[k].RowKey = P}) <= 1
          /\ \A t \in 1..Len(transactions) :
                Cardinality({k \in 1..Len(transactions[t]) :
                                transactions[t][k].RowKey = P}) <= 1

C6_Witness ==
    /\ pc = "done"
    /\ \E i, j \in 1..Len(catalog) :
          /\ i < j
          /\ catalog[i].Package = catalog[j].Package
          /\ catalog[i] # catalog[j]
          /\ catalog[i].Package \in WorkSet
          /\ CheckCalls(catalog[i].Package) # {}
          /\ \E e \in Persisted : e.RowKey = catalog[i].Package

\* C7: a failed install or uninstall invocation is the last external call of
\* the run, and the run ends without a transaction.
C7_InstallFailureStopsRun ==
    \A i \in 1..Len(calls) :
        calls[i].op \in {"install", "uninstall"} /\ calls[i].rc # 0 =>
            /\ i = Len(calls)
            /\ pc = "crashed"
            /\ transactions = <<>>
            /\ \A e \in table : e.Date = PreviousRunDate

C7_Witness ==
    /\ pc = "crashed"
    /\ Len(calls) >= 4
    /\ calls[Len(calls)].op = "uninstall"
    /\ calls[Len(calls)].rc # 0
    /\ \E i \in 1..Len(calls) : calls[i].op = "check"

\* C8: nothing is written to the store before the run is done; a completed run
\* has submitted exactly one transaction, holding exactly one entity for every
\* package of the work set that carries a score.
C8_OneTransaction ==
    /\ Len(transactions) <= 1
    /\ transactions # <<>> => pc = "done"
    /\ pc # "done" => \A e \in table : e.Date = PreviousRunDate
    /\ pc = "done" =>
          /\ Len(transactions) = 1
          /\ {transactions[1][k].RowKey : k \in 1..Len(transactions[1])}
                = {P \in WorkSet : HasScore(packages_to_score[P])}
          /\ Len(transactions[1]) = Cardinality({P \in WorkSet : HasScore(packages_to_score[P])})
          /\ Range(transactions[1]) \subseteq table

C8_Witness ==
    /\ pc = "done"
    /\ pipeline = "main"
    /\ Len(transactions) = 1
    /\ Len(transactions[1]) = Len(DEPENDENCY_ISSUE_LIBRARIES) + 1

RecomputePinned(P) ==
    /\ P \in WorkSet
    /\ Req(P, packages_to_score[P].LatestVersion) \in Range(install_packages)
    /\ ~(pc = "crashed" /\ error = lookups[P])
    /\ pc = "done" => CheckCalls(P) # {}

\* C9 as stated: a lookup that ends in not-found, in a different version or in
\* any failure of the store access leaves the package pinned in the install
\* batch, does not end the run, and the package is checked by a run that
\* completes.
C9_AnyLookupFailureRecomputes ==
    \A P \in DOMAIN lookups :
        lookups[P] \in {"ResourceNotFoundError", "version_differs", "HttpResponseError",
                        "ServiceRequestError"}
            => RecomputePinned(P)

\* C9 as amended: the same for a lookup that ends in not-found, in a different
\* version or in another HttpResponseError.
C9_HttpErrorRecomputes ==
    \A P \in DOMAIN lookups :
        lookups[P] \in {"ResourceNotFoundError", "version_differs", "HttpResponseError"}
            => RecomputePinned(P)

C9_Witness ==
    /\ pc = "done"
    /\ \E P, Q \in DOMAIN lookups :
          /\ lookups[P] = "HttpResponseError"
          /\ lookups[Q] = "version_differs"
          /\ CheckCalls(P) # {}
          /\ CheckCalls(Q) # {}

\* C10: the LatestVersion of a surviving row is one of its two version fields
\* and is not below either of them in version order; with exactly one field
\* present it is that field.
C10_LatestVersionIsSemanticMax ==
    \A P \in WorkSet :
        CatalogVersionsInPlace =>
            LET ga == FirstRow(P).VersionGA
                preview == FirstRow(P).VersionPreview
                lv == packages_to_score[P].LatestVersion
            IN  /\ (ga # NaN /\ preview # NaN) =>
                      /\ lv \in {ga, preview}
                      /\ ~VersionLess(parse(lv), parse(ga))
                      /\ ~VersionLess(parse(lv), parse(preview))
                /\ (ga # NaN /\ preview = NaN) => lv = ga
                /\ (ga = NaN /\ preview # NaN) => lv = preview
                /\ (ga = v1_9_0 /\ preview = v1_10_0b1) => lv = v1_10_0b1
                /\ (ga = v2_0_0 /\ preview = v2_0_0b1) => lv = v2_0_0
                /\ (ga = v1_0_0b2 /\ preview = v1_0_0b10) => lv = v1_0_0b10

C10_Witness ==
    /\ "azure-storage-blob" \in WorkSet
    /\ FirstRow("azure-storage-blob").VersionGA = v1_9_0
    /\ FirstRow("azure-storage-blob").VersionPreview = v1_10_0
    /\ packages_to_score["azure-storage-blob"].LatestVersion = v1_10_0

-----------------------------------------------------------------------------
(* C11..C20 *)

\* the first run of the day completed, it had nothing to install, and every
\* package of the second run had a cache hit
FullCacheHitsInBothRuns ==
    /\ Restarts(calls) # {}
    /\ \A i \in Restarts(calls) : calls[i].rc = 0
    /\ BulkInstallCalls = {}
    /\ row > Len(catalog)
    /\ WorkSet # {}
    /\ DOMAIN lookups = WorkSet
    /\ \A P \in WorkSet : lookups[P] = "hit"

SameScores(a, b) ==
    \A e \in Range(a) :
        \E f \in Range(b) :
            /\ f.RowKey = e.RowKey
            /\ f.Score = e.Score
            /\ f.PyTyped = e.PyTyped
            /\ f.LatestVersion = e.LatestVersion

\* C11: when the entry point is started a second time on the same day, with the
\* same catalog and a cache hit for every package in both runs, the second run
\* is not refused by the store and persists the same Score, PyTyped and
\* LatestVersion for every package as the first run.
C11_SameDayRerunPersistsSame ==
    FullCacheHitsInBothRuns =>
        /\ error # "TableTransactionError"
        /\ pc = "done" =>
              /\ Len(transactions) = 2
              /\ SameScores(transactions[1], transactions[2])
              /\ SameScores(transactions[2], transactions[1])

\* catalog rows the row loop has gone through (a lookup that raised has ended
\* the loop inside the row it was made for)
RowsRead ==
    {i \in 1..Len(catalog) : i < row \/ (i = row /\ pc = "crashed")}

\* the four reasons to drop a row, for the name of row i
NameMissing(i) == catalog[i].Package = NaNName

NameSeenBefore(i) == \E j \in 1..(i - 1) : catalog[j].Package = catalog[i].Package

NameIgnoredExactly(i) == catalog[i].Package \in IGNORE_PACKAGES(pipeline)

NameIgnoredByPattern(i) ==
    /\ catalog[i].Package \notin FILTER_EXCLUSIONS
    /\ \E identifier \in IGNORE_FILTER : <<catalog[i].Package, identifier>> \in NameContains

\* C12: a row the loop has gone through has its name in the work set unless the
\* name is missing, ignored by exact name, or ignored by pattern without being
\* exempted; the work set has one record per such name, in the order of the
\* first rows, holding the data of the first row (a later row of a name already
\* in the work set is dropped); no other name is in the work set.
C12_RowDroppedExactlyWhen ==
    LET Kept == {i \in RowsRead :
                    ~NameMissing(i) /\ ~NameIgnoredExactly(i) /\ ~NameIgnoredByPattern(i)
                    /\ ~NameSeenBefore(i)}
    IN  /\ WorkSet = {catalog[i].Package : i \in Kept}
        /\ Len(order) = Cardinality(Kept)
        /\ \A i \in Kept :
              /\ catalog[i].Package \in Range(order)
              /\ CatalogVersionsInPlace =>
                    packages_to_score[catalog[i].Package].LatestVersion =
                        latest_version(catalog[i].VersionGA, catalog[i].VersionPreview)
              /\ \A j \in Kept : i < j =>
                    IndexOf(order, catalog[i].Package) < IndexOf(order, catalog[j].Package)
        /\ \A i \in RowsRead :
              /\ catalog[i].Package = "azure-mgmt-core" => "azure-mgmt-core" \in WorkSet
              /\ catalog[i].Package \in {"azure-mgmt-compute", "azure-nspkg", "msrest", NaNName}
                    => catalog[i].Package \notin WorkSet
              /\ catalog[i].Package = "mltable" =>
                    ("mltable" \in WorkSet <=> pipeline = "function")
              /\ catalog[i].Package = "azure-ai-vision" =>
                    ("azure-ai-vision" \in WorkSet <=> pipeline # "main")

C12_Witness ==
    /\ row > Len(catalog)
    /\ Len(catalog) = 2
    /\ catalog[1].Package = "azure-mgmt-core"
    /\ catalog[2].Package = "azure-mgmt-compute"
    /\ WorkSet = {"azure-mgmt-core"}

\* C13: every checker invocation for a package comes after a successful install
\* invocation of the same run that pinned the package to the LatestVersion the
\* work set records for it.
C13_CheckedOnlyAfterInstall ==
    \A i \in 1..Len(calls) :
        calls[i].op = "check" /\ calls[i].package \in WorkSet =>
            \E j \in 1..(i - 1) :
                /\ calls[j].op = "install"
                /\ calls[j].rc = 0
                /\ Req(calls[i].package, packages_to_score[calls[i].package].LatestVersion)
                      \in Range(calls[j].args)

\* check calls of the isolated round
IsolatedChecks ==
    LET start == Round2Start
    IN  {i \in 1..Len(calls) : calls[i].op = "check" /\ i > start
                               /\ IsoIndex(calls[i].package) # 0}

DepsOf(P) == Isolated(pipeline)[IsoIndex(P)].deps

\* the uninstall invocation at index u removes exactly the names recorded for P
UninstallsExactly(u, P) ==
    /\ u >= 1
    /\ calls[u].op = "uninstall"
    /\ calls[u].rc = 0
    /\ calls[u].args = [k \in 1..Len(DepsOf(P)) |-> Name(DepsOf(P)[k])]

\* the install invocation at index j installs P pinned to its version and,
\* apart from the checker itself, nothing else
InstallsAlone(j, P) ==
    /\ j >= 1
    /\ calls[j].op = "install"
    /\ calls[j].rc = 0
    /\ Req(P, packages_to_score[P].LatestVersion) \in Range(calls[j].args)
    /\ Pins(calls[j].args) \subseteq {P, "pyright"}

\* no install invocation after an uninstall brings back a package the run had
\* installed before and has uninstalled
NothingRestored ==
    \A u \in 1..Len(calls) :
        calls[u].op = "uninstall" =>
            \A j \in (u + 1)..Len(calls) :
                calls[j].op = "install" =>
                    \A D \in Pins(calls[u].args) :
                        D \in Pins(calls[j].args) =>
                            \A k \in 1..(u - 1) :
                                ~(calls[k].op = "install" /\ D \in Pins(calls[k].args))

\* C14 as stated: in both two-round pipelines the scoring of an isolated package
\* comes directly after the install of that package alone, which comes directly
\* after the uninstall of exactly its recorded dependencies, and nothing
\* uninstalled is restored.
C14_IsolatedRoundHasThreeSteps ==
    pipeline \in {"main", "released"} =>
        /\ \A i \in IsolatedChecks :
              LET P == calls[i].package
              IN  /\ calls[i - 1].op = "show" /\ calls[i - 1].package = P
                  /\ InstallsAlone(i - 2, P)
                  /\ UninstallsExactly(i - 3, P)
        /\ NothingRestored

\* C14 as amended: in the main pipeline the isolated round of a package is
\* uninstall of exactly its recorded dependencies, install of the package
\* pinned to its version together with the pinned checker, then its scoring,
\* with nothing in between; in the released pipeline the isolated round is the
\* uninstall of the three plugins of azure-core directly followed by its
\* scoring, without an install; no dependency is installed between the uninstall
\* and the scoring, and no package the run had installed and then uninstalled is
\* installed again.
C14_IsolatedRoundSteps ==
    /\ pipeline = "main" =>
          \A i \in IsolatedChecks :
              LET P == calls[i].package
              IN  /\ calls[i - 1].op = "show" /\ calls[i - 1].package = P
                  /\ InstallsAlone(i - 2, P)
                  /\ calls[i - 2].args =
                        <<Req(P, packages_to_score[P].LatestVersion), PyrightPin("main")>>
                  /\ UninstallsExactly(i - 3, P)
                  /\ Range(DepsOf(P)) \cap Pins(calls[i - 2].args) = {}
    /\ pipeline = "released" =>
          \A i \in IsolatedChecks :
              /\ calls[i].package = ReleasedIsolated
              /\ calls[i - 1].op = "show" /\ calls[i - 1].package = ReleasedIsolated
              /\ UninstallsExactly(i - 2, ReleasedIsolated)
              /\ \A j \in Round2Start..Len(calls) : calls[j].op # "install"
    /\ NothingRestored

C14_Witness ==
    /\ pipeline = "main"
    /\ Len(second_round_entities) = Len(DEPENDENCY_ISSUE_LIBRARIES)
    /\ \E u, j \in 1..Len(calls) :
          /\ u < j
          /\ calls[u].op = "uninstall"
          /\ calls[u].package = "azure-ai-ml"
          /\ calls[j].op = "install"
          /\ calls[j].package = "azure-storage-file-datalake"
    /\ \E k \in BulkInstallCalls : "azure-storage-blob" \in Pins(calls[k].args)

\* C15: every install invocation carries the pinned checker, and every checker
\* invocation for a package of the work set comes after a successful install invocation of the same run that
\* carried it (also when the bulk install list of the run was empty).
C15_CheckerInstalledBeforeCheck ==
    /\ \A j \in 1..Len(calls) :
          calls[j].op = "install" => PyrightPin(pipeline) \in Range(calls[j].args)
    /\ \A i \in 1..Len(calls) :
          calls[i].op = "check" /\ calls[i].package \in WorkSet =>
              \E j \in 1..(i - 1) :
                  /\ calls[j].op = "install"
                  /\ calls[j].rc = 0
                  /\ PyrightPin(pipeline) \in Range(calls[j].args)

\* C16: every entity of the batch, reused or freshly scored, has the package
\* name as RowKey, carries the date and time of the current run, and has as
\* PartitionKey the ten characters YYYY-MM-DD of that date; all entities of a
\* batch share one PartitionKey.
C16_EntityKeys ==
    /\ \A e \in Assembled \cup Persisted :
          /\ e.RowKey = e.Package
          /\ e.RowKey \in WorkSet
          /\ e.Date = today
          /\ e.Date # PreviousRunDate
          /\ e.PartitionKey = DateStr([year |-> today.year, month |-> today.month,
                                       day |-> today.day])
          /\ Len(e.PartitionKey) = 10
          /\ (today.month = 1 /\ today.day = 15) =>
                e.PartitionKey = <<"2", "0", "2", "3", "-", "0", "1", "-", "1", "5">>
    /\ \A e, f \in Assembled \cup Persisted : e.PartitionKey = f.PartitionKey

C16_Witness ==
    /\ pc = "done"
    /\ pipeline = "function"
    /\ \E e, f \in Persisted :
          /\ lookups[e.RowKey] = "hit"
          /\ e.Score = CachedEntity(today, table, e.RowKey).Score
          /\ CheckCalls(f.RowKey) # {}

\* the run date is the day of the month of d, one month after d
OneMonthAfter(d) ==
    /\ today.day = d.day
    /\ \/ today.year = d.year /\ today.month = d.month + 1
       \/ today.year = d.year + 1 /\ today.month = 1 /\ d.month = 12

\* C17: no cache lookup ends with get_last_month raising, whatever the run
\* date; the key get_last_month computes is the PartitionKey of the entities
\* written one month before the run date, so the lookup of a package that has
\* such an entity does not report not-found.
C17_LastMonthKeyFound ==
    \A P \in DOMAIN lookups :
        /\ lookups[P] # "ValueError"
        /\ get_last_month(today) # ValueError
        /\ \A e \in table :
              (e.RowKey = P /\ OneMonthAfter(e.Date)) =>
                  /\ get_last_month(today) = e.PartitionKey
                  /\ lookups[P] # "ResourceNotFoundError"

\* C18: when pip show lists no __init__.py for a package, get_module raises:
\* the pip show invocation is the last call of the run, no checker invocation
\* follows for the package, and no entity of the package is assembled or
\* persisted.
C18_NoInitializerFails ==
    \A i \in 1..Len(calls) :
        (calls[i].op = "show" /\ calls[i].output = <<"no_init">>) =>
            /\ i = Len(calls)
            /\ pc = "crashed"
            /\ CheckCalls(calls[i].package) = {}
            /\ \A e \in Assembled \cup Persisted : e.RowKey # calls[i].package

\* C19: for every report the checker printed (exit code 0 or 1) and the run
\* parsed, the Score of the package is the percentage nearest to
\* completenessScore with one decimal place (in tenths of a percent: within 5
\* ten-thousandths of it, between 0 and 1000, and 873 for 0.873), and PyTyped is
\* true exactly when the report has a pyTypedPath.
C19_ScoreIsRoundedPercentage ==
    \A i \in 1..Len(calls) :
        (calls[i].op = "check" /\ calls[i].rc \in {0, 1}
            /\ calls[i].package \in WorkSet) =>
            LET c == calls[i].output[1].completenessScore
                rec == packages_to_score[calls[i].package]
            IN  /\ HasScore(rec)
                /\ rec.Score \in 0..1000
                /\ 10 * rec.Score - c < 5
                /\ c - 10 * rec.Score < 5
                /\ c = 8730 => rec.Score = 873
                /\ c = 10000 => rec.Score = 1000
                /\ rec.PyTyped = (calls[i].output[1].pyTypedPath # NoValue)
                /\ \E e \in Assembled :
                      /\ e.RowKey = calls[i].package
                      /\ e.Score = rec.Score
                      /\ e.PyTyped = rec.PyTyped

C19_Witness ==
    /\ pc = "done"
    /\ \E i \in 1..Len(calls) :
          /\ calls[i].op = "check"
          /\ calls[i].output # <<>>
          /\ calls[i].output[1].completenessScore = 8736
          /\ calls[i].output[1].pyTypedPath = NoValue
          /\ \E e \in Persisted : e.Score = 874 /\ ~e.PyTyped

\* C20: whenever the isolated round turns to a package, the package is in the
\* work set and, in the main pipeline, has an entry in second_round; no run
\* ends with a KeyError.
C20_IsolatedPackagesPresent ==
    /\ pc \in {"r2_install", "r2_score"} =>
          /\ Isolated(pipeline)[cur].library \in WorkSet
          /\ pipeline = "main" => Isolated(pipeline)[cur].library \in DOMAIN second_round
    /\ error # "KeyError"

-----------------------------------------------------------------------------
(* C21 *)

\* C21: every persisted entity of a package the run has checked carries the
\* version a successful install invocation of the run pinned for the package,
\* and no install invocation of the run pinned the package to another version.
C21_PersistedVersionIsPinnedVersion ==
    \A e \in Persisted :
        CheckCalls(e.RowKey) # {} =>
            /\ \E j \in 1..Len(calls) :
                  /\ calls[j].op = "install"
                  /\ calls[j].rc = 0
                  /\ Req(e.RowKey, e.LatestVersion) \in Range(calls[j].args)
            /\ \A j \in InstallCallsWith(e.RowKey) :
                  \A k \in 1..Len(calls[j].args) :
                      calls[j].args[k].name = e.RowKey =>
                          calls[j].args[k].version = e.LatestVersion

====
